---- MODULE Spec2Model ----
(***************************************************************************)
(* A model of the Forth interpreter of src/src/lib.rs: the value stack,    *)
(* the word table `vars` of shared bodies, and the three-state machine of  *)
(* Forth::eval, one step per token of the input.                           *)
(*                                                                         *)
(* A body is an Rc<Vec<Op>>: it is modelled as an entry of `heap`, a       *)
(* sequence of immutable bodies, and an Rc pointer is the index of the     *)
(* entry.  Tokens and names are sequences of one-character strings, so     *)
(* that parsing and upper-casing are computed and not assumed.             *)
(***************************************************************************)
EXTENDS Integers, Sequences, FiniteSets, TLC

VARIABLES
    stack,       \* Forth.stack: Vec<i32>, top = end
    vars,        \* Forth.vars: HashMap<String, Rc<Vec<Op>>>, name -> heap index
    heap,        \* the allocated bodies (Rc<Vec<Op>>), immutable once allocated
    state,       \* eval's local `state`: WordReadState
    temp_key,    \* eval's local `temp_key`
    temp_value,  \* eval's local `temp_value`
    result,      \* "none" before the first call, "running" inside a call,
                 \* else what the last call returned ("Panic": it aborted)
    tok,         \* the token the last step of the loop consumed
    pre          \* the stack before the last operation applied to it

allvars == <<stack, vars, heap, state, temp_key, temp_value, result, tok, pre>>

----------------------------------------------------------------------------
(* Bounds of the exploration *)

MaxStack == 2      \* longest stack a step of Spec may leave
MaxOps == 3        \* operations Spec may store in user bodies, the open one included
MaxDepth == 3      \* longest stack SpecOps starts from

----------------------------------------------------------------------------
(* i32: every intermediate value below stays inside the i32 range *)

MaxI32 == 2147483647
MinI32 == -MaxI32 - 1
Half == 65536
Byte == 256

InI32(v) == MinI32 <= v /\ v <= MaxI32

AddOverflows(a, b) == (b > 0 /\ a > MaxI32 - b) \/ (b < 0 /\ a < MinI32 - b)
SubOverflows(a, b) == (b < 0 /\ a > MaxI32 + b) \/ (b > 0 /\ a < MinI32 + b)

\* i32::wrapping_add: a + b reduced modulo 2^32
WrappingAdd(a, b) ==
    IF ~AddOverflows(a, b) THEN a + b
    ELSE IF b > 0 THEN (a + MinI32) + (b + MinI32)
    ELSE (a - MinI32) + (b - MinI32)

\* i32::wrapping_sub: a - b reduced modulo 2^32
WrappingSub(a, b) ==
    IF ~SubOverflows(a, b) THEN a - b
    ELSE IF b < 0 THEN (a + MinI32) - (b - MinI32)
    ELSE (a - MinI32) - (b + MinI32)

\* the two 16-bit halves of the two's complement representation of a
HiHalf(a) == IF a >= 0 THEN a \div Half ELSE (a \div Half) + Half
LoHalf(a) == a % Half

\* x * y modulo 2^16, for 16-bit x and y
MulLow16(x, y) == ((x % Byte) * y + (((x \div Byte) * y) % Byte) * Byte) % Half

\* the upper half of the 32-bit product x * y, for 16-bit x and y
MulHigh16(x, y) ==
    LET y0 == (x % Byte) * y
        y1 == (x \div Byte) * y
    IN  (y1 \div Byte) + (((y1 % Byte) * Byte + y0) \div Half)

FromHalves(hi, lo) == IF hi >= Half \div 2 THEN (hi - Half) * Half + lo ELSE hi * Half + lo

\* i32::wrapping_mul: a * b reduced modulo 2^32
WrappingMul(a, b) ==
    LET lo == MulLow16(LoHalf(a), LoHalf(b))
        hi == (MulHigh16(LoHalf(a), LoHalf(b)) + MulLow16(HiHalf(a), LoHalf(b))
                 + MulLow16(LoHalf(a), HiHalf(b))) % Half
    IN  FromHalves(hi, lo)

\* i32 `/` for b > 0: the quotient truncated toward zero
TruncDivPos(a, b) == IF a < 0 /\ a % b # 0 THEN (a \div b) + 1 ELSE a \div b

\* i32 `/` for b # 0, and not MinI32 / -1: the quotient truncated toward zero
TruncDiv(a, b) ==
    IF b > 0 THEN TruncDivPos(a, b)
    ELSE IF b = MinI32 THEN (IF a = MinI32 THEN 1 ELSE 0)
    ELSE -TruncDivPos(a, -b)

\* the exact product a * b does not fit i32
MulOverflows(a, b) ==
    IF a = 0 \/ b = 0 THEN FALSE
    ELSE IF a > 0 /\ b > 0 THEN a > MaxI32 \div b
    ELSE IF a > 0 /\ b < 0 THEN b < TruncDivPos(MinI32, a)
    ELSE IF a < 0 /\ b > 0 THEN a < TruncDivPos(MinI32, b)
    ELSE IF a = MinI32 \/ b = MinI32 THEN TRUE
    ELSE (-a) > MaxI32 \div (-b)

----------------------------------------------------------------------------
(* Names, characters and tokens *)

PLUS == <<"+">>
MINUS == <<"-">>
STAR == <<"*">>
SLASH == <<"/">>
DUP == <<"D", "U", "P">>
DROP == <<"D", "R", "O", "P">>
SWAP == <<"S", "W", "A", "P">>
OVER == <<"O", "V", "E", "R">>
COLON == <<":">>
SEMI == <<";">>

\* the order in which Forth::new inserts the built-ins
Builtins == <<PLUS, MINUS, STAR, SLASH, DUP, DROP, SWAP, OVER>>

LowerCase == <<"a", "b", "c", "d", "e", "f", "g", "h", "i", "j", "k", "l", "m",
               "n", "o", "p", "q", "r", "s", "t", "u", "v", "w", "x", "y", "z">>
UpperCase == <<"A", "B", "C", "D", "E", "F", "G", "H", "I", "J", "K", "L", "M",
               "N", "O", "P", "Q", "R", "S", "T", "U", "V", "W", "X", "Y", "Z">>
Digits == <<"0", "1", "2", "3", "4", "5", "6", "7", "8", "9">>

IndexIn(seq, c) == CHOOSE i \in 1..Len(seq) : seq[i] = c
Occurs(seq, c) == \E i \in 1..Len(seq) : seq[i] = c

\* str::to_ascii_uppercase
to_ascii_uppercase(s) ==
    [i \in 1..Len(s) |->
        IF Occurs(LowerCase, s[i]) THEN UpperCase[IndexIn(LowerCase, s[i])] ELSE s[i]]

RECURSIVE DigitsValue(_)
DigitsValue(ds) ==
    IF ds = <<>> THEN 0
    ELSE 10 * DigitsValue(SubSeq(ds, 1, Len(ds) - 1)) + (IndexIn(Digits, ds[Len(ds)]) - 1)

\* str::parse::<i32>: an optional sign, then one or more decimal digits, in range
ParseI32(t) ==
    LET signed == t # <<>> /\ t[1] \in {"+", "-"}
        ds == IF signed THEN Tail(t) ELSE t
        wellformed == ds # <<>> /\ \A i \in 1..Len(ds) : Occurs(Digits, ds[i])
        v == IF wellformed
             THEN (IF signed /\ t[1] = "-" THEN -DigitsValue(ds) ELSE DigitsValue(ds))
             ELSE 0
    IN  [ok |-> wellformed /\ InI32(v), num |-> v]

\* a bug evaluate_token_type could have: a word keeps the spelling it was
\* typed in
evaluate_token_type_CaseSensitive(t) ==
    IF ParseI32(t).ok
    THEN [type |-> "Num", num |-> ParseI32(t).num]
    ELSE [type |-> "Word", word |-> t]

\* Forth::evaluate_token_type
evaluate_token_type(t) ==
    IF ParseI32(t).ok
    THEN [type |-> "Num", num |-> ParseI32(t).num]
    ELSE [type |-> "Word", word |-> to_ascii_uppercase(t)]

\* the tokens the inputs of Spec are made of
Tokens == { <<"0">>, <<"1">>, COLON, SEMI, SLASH,
            <<"f", "o", "o">>, <<"F", "o", "o">>, <<"b", "a", "r">> }

\* the values the stacks of SpecOps start from
ArithVals == { MinI32, -7, -1, 0, 2, 3, 8, MaxI32 }

----------------------------------------------------------------------------
(* Operations *)

OpWord(name) == [tag |-> "Word", name |-> name]
OpNum(num) == [tag |-> "Num", num |-> num]
OpRef(id) == [tag |-> "Ref", id |-> id]

Outcome(st, res) == [stack |-> st, res |-> res]

Top(st) == st[Len(st)]
Pop(st) == SubSeq(st, 1, Len(st) - 1)

\* `a op b` on i32, wrapped its value modulo 2^32: it either fits, or the build
\* decides: a panic (overflow checks on, the operands already popped) or the
\* wrapped value (overflow checks off)
Arith(rest, overflows, wrapped) ==
    IF ~overflows THEN { Outcome(Append(rest, wrapped), "Ok") }
    ELSE { Outcome(rest, "Panic"), Outcome(Append(rest, wrapped), "Ok") }

\* a bug Divide could have: the operands are put back before the error returns
Divide_Restoring(rest, a, b) ==
    IF b = 0 THEN { Outcome(rest \o <<a, b>>, "DivisionByZero") }
    ELSE IF a = MinI32 /\ b = -1 THEN { Outcome(rest, "Panic") }
    ELSE { Outcome(Append(rest, TruncDiv(a, b)), "Ok") }

\* i32 division (lines 96-102): i32::MIN / -1 panics in every build
Divide(rest, a, b) ==
    IF b = 0 THEN { Outcome(rest, "DivisionByZero") }
    ELSE IF a = MinI32 /\ b = -1 THEN { Outcome(rest, "Panic") }
    ELSE { Outcome(Append(rest, TruncDiv(a, b)), "Ok") }

\* lines 83-115: the match on a word that takes two operands, both popped
ExecBinary(s2, first_operand, second_operand, input) ==
    IF input = PLUS
      THEN Arith(s2, AddOverflows(first_operand, second_operand),
                 WrappingAdd(first_operand, second_operand))
    ELSE IF input = MINUS
      THEN Arith(s2, SubOverflows(first_operand, second_operand),
                 WrappingSub(first_operand, second_operand))
    ELSE IF input = STAR
      THEN Arith(s2, MulOverflows(first_operand, second_operand),
                 WrappingMul(first_operand, second_operand))
    ELSE IF input = SLASH THEN Divide(s2, first_operand, second_operand)
    ELSE IF input = SWAP THEN { Outcome(s2 \o <<second_operand, first_operand>>, "Ok") }
    ELSE IF input = OVER
      THEN { Outcome(s2 \o <<first_operand, second_operand, first_operand>>, "Ok") }
    ELSE { Outcome(s2, "InvalidWord") }

\* a bug ExecPopped could have: the divisor is tested as soon as it is popped
ExecPopped_ZeroFirst(s1, second_operand, input) ==
    IF input = DUP THEN { Outcome(s1 \o <<second_operand, second_operand>>, "Ok") }
    ELSE IF input = DROP THEN { Outcome(s1, "Ok") }
    ELSE IF input = SLASH /\ second_operand = 0 THEN { Outcome(s1, "DivisionByZero") }
    ELSE IF s1 = <<>> THEN { Outcome(s1, "StackUnderflow") }
    ELSE ExecBinary(Pop(s1), Top(s1), second_operand, input)

\* a bug ExecPopped could have: when the first operand is missing the second
\* is pushed back before the error returns
ExecPopped_Restoring(s1, second_operand, input) ==
    IF input = DUP THEN { Outcome(s1 \o <<second_operand, second_operand>>, "Ok") }
    ELSE IF input = DROP THEN { Outcome(s1, "Ok") }
    ELSE IF s1 = <<>> THEN { Outcome(<<second_operand>>, "StackUnderflow") }
    ELSE ExecBinary(Pop(s1), Top(s1), second_operand, input)

\* lines 74-119: the match on the word, its second operand popped
ExecPopped(s1, second_operand, input) ==
    IF input = DUP THEN { Outcome(s1 \o <<second_operand, second_operand>>, "Ok") }
    ELSE IF input = DROP THEN { Outcome(s1, "Ok") }
    ELSE IF s1 = <<>> THEN { Outcome(s1, "StackUnderflow") }
    ELSE ExecBinary(Pop(s1), Top(s1), second_operand, input)

\* Forth::push_in_stack, the Op::Word arm (lines 72-124)
ExecWord(st, input) ==
    IF st = <<>> THEN { Outcome(st, "StackUnderflow") }
    ELSE ExecPopped(Pop(st), Top(st), input)

\* Forth::push_in_stack: the set of outcomes of executing op on the stack st;
\* ExecOps is the loop over a body, stopping at the first failure
RECURSIVE push_in_stack(_, _, _), ExecOps(_, _, _)
push_in_stack(h, st, op) ==
    IF op.tag = "Word" THEN ExecWord(st, op.name)
    ELSE IF op.tag = "Num" THEN { Outcome(Append(st, op.num), "Ok") }
    ELSE ExecOps(h, st, h[op.id])

ExecOps(h, st, ops) ==
    IF ops = <<>> THEN { Outcome(st, "Ok") }
    ELSE UNION { IF o.res = "Ok" THEN ExecOps(h, o.stack, Tail(ops)) ELSE {o}
                 : o \in push_in_stack(h, st, Head(ops)) }

\* the primitive operations (Op::Word, Op::Num) a body runs, in order, with its
\* references followed at most `fuel` levels deep (a chain of references is
\* never longer than the heap)
RECURSIVE Flat(_, _, _)
Flat(h, ops, fuel) ==
    IF ops = <<>> THEN <<>>
    ELSE LET op == Head(ops)
             first == IF op.tag # "Ref" THEN <<op>>
                      ELSE IF fuel = 0 THEN <<>>
                      ELSE Flat(h, h[op.id], fuel - 1)
         IN  first \o Flat(h, Tail(ops), fuel)

\* the primitive operations executed one after the other, up to the first failure
RECURSIVE RunPrims(_, _)
RunPrims(st, prims) ==
    IF prims = <<>> THEN { Outcome(st, "Ok") }
    ELSE UNION { IF o.res = "Ok" THEN RunPrims(o.stack, Tail(prims)) ELSE {o}
                 : o \in (IF Head(prims).tag = "Word"
                          THEN ExecWord(st, Head(prims).name)
                          ELSE { Outcome(Append(st, Head(prims).num), "Ok") }) }

----------------------------------------------------------------------------
(* Construction *)

\* Forth::new
NewVars == [n \in { Builtins[i] : i \in 1..Len(Builtins) } |-> IndexIn(Builtins, n)]
NewHeap == [i \in 1..Len(Builtins) |-> << OpWord(Builtins[i]) >>]

Init ==
    /\ stack = <<>>
    /\ vars = NewVars
    /\ heap = NewHeap
    /\ state = "NotReading"
    /\ temp_key = <<>>
    /\ temp_value = <<>>
    /\ result = "none"
    /\ tok = <<>>
    /\ pre = <<>>

----------------------------------------------------------------------------
(* Forth::eval, one step per token *)

NoToken == <<>>

RECURSIVE SumLen(_, _)
SumLen(h, i) == IF i > Len(h) THEN 0 ELSE Len(h[i]) + SumLen(h, i + 1)

\* operations held by the user bodies and by the capture buffer
StoredOps == SumLen(heap, Len(Builtins) + 1) + Len(temp_value)

Running == result = "running"

\* a bug BeginEval could have: the reading state and the capture buffer are
\* kept in the interpreter, so a call resumes the definition the last one left open
BeginEval_Resuming ==
    /\ result \notin {"running", "Panic"}
    /\ result' = "running"
    /\ tok' = NoToken
    /\ pre' = stack
    /\ UNCHANGED <<stack, vars, heap, state, temp_key, temp_value>>

\* lines 138-142: a call starts with fresh locals
BeginEval ==
    /\ result \notin {"running", "Panic"}
    /\ result' = "running"
    /\ state' = "NotReading"
    /\ temp_key' = <<>>
    /\ temp_value' = <<>>
    /\ tok' = NoToken
    /\ pre' = stack
    /\ UNCHANGED <<stack, vars, heap>>

\* what every iteration of the loop does before its match arm
Consume(t) ==
    /\ Running
    /\ tok' = t
    /\ pre' = stack

\* lines 147-149
NotReadingColon ==
    \E t \in Tokens :
        /\ Consume(t)
        /\ state = "NotReading"
        /\ evaluate_token_type(t) = [type |-> "Word", word |-> COLON]
        /\ state' = "ToreadWord"
        /\ UNCHANGED <<stack, vars, heap, temp_key, temp_value, result>>

\* line 150
NotReadingSemi ==
    \E t \in Tokens :
        /\ Consume(t)
        /\ state = "NotReading"
        /\ evaluate_token_type(t) = [type |-> "Word", word |-> SEMI]
        /\ result' = "InvalidWord"
        /\ UNCHANGED <<stack, vars, heap, state, temp_key, temp_value>>

\* a bug NotReadingLookup could have: a failing word gives the stack back as
\* it was before the word
NotReadingLookup_Rollback ==
    \E t \in Tokens :
        LET tt == evaluate_token_type(t) IN
        /\ Consume(t)
        /\ state = "NotReading"
        /\ tt.type = "Word"
        /\ tt.word \notin {COLON, SEMI}
        /\ IF tt.word \in DOMAIN vars
           THEN \E o \in ExecOps(heap, stack, heap[vars[tt.word]]) :
                    /\ Len(o.stack) <= MaxStack
                    /\ stack' = IF o.res = "Ok" THEN o.stack ELSE stack
                    /\ result' = IF o.res = "Ok" THEN "running" ELSE o.res
           ELSE /\ result' = "UnknownWord"
                /\ UNCHANGED stack
        /\ UNCHANGED <<vars, heap, state, temp_key, temp_value>>

\* lines 151-164: look the word up and execute its body
NotReadingLookup ==
    \E t \in Tokens :
        LET tt == evaluate_token_type(t) IN
        /\ Consume(t)
        /\ state = "NotReading"
        /\ tt.type = "Word"
        /\ tt.word \notin {COLON, SEMI}
        /\ IF tt.word \in DOMAIN vars
           THEN \E o \in ExecOps(heap, stack, heap[vars[tt.word]]) :
                    /\ Len(o.stack) <= MaxStack
                    /\ stack' = o.stack
                    /\ result' = IF o.res = "Ok" THEN "running" ELSE o.res
           ELSE /\ result' = "UnknownWord"
                /\ UNCHANGED stack
        /\ UNCHANGED <<vars, heap, state, temp_key, temp_value>>

\* lines 166-171
NotReadingNum ==
    \E t \in Tokens :
        LET tt == evaluate_token_type(t) IN
        /\ Consume(t)
        /\ state = "NotReading"
        /\ tt.type = "Num"
        /\ \E o \in push_in_stack(heap, stack, OpNum(tt.num)) :
              /\ Len(o.stack) <= MaxStack
              /\ stack' = o.stack
              /\ result' = IF o.res = "Ok" THEN "running" ELSE o.res
        /\ UNCHANGED <<vars, heap, state, temp_key, temp_value>>

\* lines 172-174: the raw token is matched against the markers
ToreadWordMarker ==
    \E t \in Tokens :
        /\ Consume(t)
        /\ state = "ToreadWord"
        /\ evaluate_token_type(t).type = "Word"
        /\ t \in {COLON, SEMI}
        /\ result' = "InvalidWord"
        /\ UNCHANGED <<stack, vars, heap, state, temp_key, temp_value>>

\* lines 175-179
ToreadWordName ==
    \E t \in Tokens :
        /\ Consume(t)
        /\ state = "ToreadWord"
        /\ evaluate_token_type(t).type = "Word"
        /\ t \notin {COLON, SEMI}
        /\ state' = "ToreadDef"
        /\ temp_key' = to_ascii_uppercase(t)
        /\ UNCHANGED <<stack, vars, heap, temp_value, result>>

\* a bug ToreadWordNum could have: a number is taken as the name
ToreadWordNum_AsName ==
    \E t \in Tokens :
        /\ Consume(t)
        /\ state = "ToreadWord"
        /\ evaluate_token_type(t).type = "Num"
        /\ state' = "ToreadDef"
        /\ temp_key' = to_ascii_uppercase(t)
        /\ UNCHANGED <<stack, vars, heap, temp_value, result>>

\* line 181
ToreadWordNum ==
    \E t \in Tokens :
        /\ Consume(t)
        /\ state = "ToreadWord"
        /\ evaluate_token_type(t).type = "Num"
        /\ result' = "InvalidWord"
        /\ UNCHANGED <<stack, vars, heap, state, temp_key, temp_value>>

\* a bug ToreadDefSemi could have: the name is late-bound, so a redefinition
\* redirects the references older bodies hold to the body it replaces
Rebind(ops, old, new) ==
    [k \in 1..Len(ops) |-> IF ops[k] = OpRef(old) THEN OpRef(new) ELSE ops[k]]

ToreadDefSemi_LateBound ==
    \E t \in Tokens :
        /\ Consume(t)
        /\ state = "ToreadDef"
        /\ evaluate_token_type(t) = [type |-> "Word", word |-> SEMI]
        /\ IF temp_value = <<>>
           THEN /\ result' = "UnknownWord"
                /\ UNCHANGED <<vars, heap, state, temp_value>>
           ELSE /\ heap' = Append(IF temp_key \in DOMAIN vars
                                  THEN [i \in 1..Len(heap) |->
                                          Rebind(heap[i], vars[temp_key], Len(heap) + 1)]
                                  ELSE heap,
                                  temp_value)
                /\ vars' = (temp_key :> (Len(heap) + 1)) @@ vars
                /\ temp_value' = <<>>
                /\ state' = "NotReading"
                /\ UNCHANGED result
        /\ UNCHANGED <<stack, temp_key>>

\* a bug ToreadDefSemi could have: a redefinition overwrites the body the name
\* has, in place, so the references to the old body now reach the new one
ToreadDefSemi_InPlace ==
    \E t \in Tokens :
        /\ Consume(t)
        /\ state = "ToreadDef"
        /\ evaluate_token_type(t) = [type |-> "Word", word |-> SEMI]
        /\ IF temp_value = <<>>
           THEN /\ result' = "UnknownWord"
                /\ UNCHANGED <<vars, heap, state, temp_value>>
           ELSE /\ IF temp_key \in DOMAIN vars
                   THEN /\ heap' = [heap EXCEPT ![vars[temp_key]] = temp_value]
                        /\ UNCHANGED vars
                   ELSE /\ heap' = Append(heap, temp_value)
                        /\ vars' = (temp_key :> (Len(heap) + 1)) @@ vars
                /\ temp_value' = <<>>
                /\ state' = "NotReading"
                /\ UNCHANGED result
        /\ UNCHANGED <<stack, temp_key>>

\* a bug ToreadDefSemi could have: an empty definition removes the name from
\* the table before it is rejected
ToreadDefSemi_Forgetting ==
    \E t \in Tokens :
        /\ Consume(t)
        /\ state = "ToreadDef"
        /\ evaluate_token_type(t) = [type |-> "Word", word |-> SEMI]
        /\ IF temp_value = <<>>
           THEN /\ result' = "UnknownWord"
                /\ vars' = [w \in DOMAIN vars \ {temp_key} |-> vars[w]]
                /\ UNCHANGED <<heap, state, temp_value>>
           ELSE /\ heap' = Append(heap, temp_value)
                /\ vars' = (temp_key :> (Len(heap) + 1)) @@ vars
                /\ temp_value' = <<>>
                /\ state' = "NotReading"
                /\ UNCHANGED result
        /\ UNCHANGED <<stack, temp_key>>

\* lines 183-192: the terminator commits the captured body, or rejects an empty one
ToreadDefSemi ==
    \E t \in Tokens :
        /\ Consume(t)
        /\ state = "ToreadDef"
        /\ evaluate_token_type(t) = [type |-> "Word", word |-> SEMI]
        /\ IF temp_value = <<>>
           THEN /\ result' = "UnknownWord"
                /\ UNCHANGED <<vars, heap, state, temp_value>>
           ELSE /\ heap' = Append(heap, temp_value)
                /\ vars' = (temp_key :> (Len(heap) + 1)) @@ vars
                /\ temp_value' = <<>>
                /\ state' = "NotReading"
                /\ UNCHANGED result
        /\ UNCHANGED <<stack, temp_key>>

\* lines 193-195
ToreadDefColon ==
    \E t \in Tokens :
        /\ Consume(t)
        /\ state = "ToreadDef"
        /\ evaluate_token_type(t) = [type |-> "Word", word |-> COLON]
        /\ result' = "InvalidWord"
        /\ UNCHANGED <<stack, vars, heap, state, temp_key, temp_value>>

\* a bug ToreadDefLookup could have: an unknown word is recorded by name, to
\* be looked up when the body runs
ToreadDefLookup_Forward ==
    \E t \in Tokens :
        LET tt == evaluate_token_type(t) IN
        /\ Consume(t)
        /\ state = "ToreadDef"
        /\ tt.type = "Word"
        /\ tt.word \notin {COLON, SEMI}
        /\ StoredOps < MaxOps
        /\ temp_value' = Append(temp_value, IF tt.word \in DOMAIN vars
                                            THEN OpRef(vars[tt.word])
                                            ELSE OpWord(tt.word))
        /\ UNCHANGED <<stack, vars, heap, state, temp_key, result>>

\* a bug ToreadDefLookup could have: the name being defined already stands for
\* the body under construction, so a mention of it is a reference to itself
ToreadDefLookup_SelfBound ==
    \E t \in Tokens :
        LET tt == evaluate_token_type(t) IN
        /\ Consume(t)
        /\ state = "ToreadDef"
        /\ tt.type = "Word"
        /\ tt.word \notin {COLON, SEMI}
        /\ IF tt.word \in DOMAIN vars
           THEN /\ StoredOps < MaxOps
                /\ temp_value' = Append(temp_value,
                                        OpRef(IF tt.word = temp_key THEN Len(heap) + 1
                                              ELSE vars[tt.word]))
                /\ UNCHANGED result
           ELSE /\ result' = "UnknownWord"
                /\ UNCHANGED temp_value
        /\ UNCHANGED <<stack, vars, heap, state, temp_key>>

\* a bug ToreadDefLookup could have: a word of the body is expanded on the
\* spot, the body copies the operations of the word it mentions
ToreadDefLookup_Expanding ==
    \E t \in Tokens :
        LET tt == evaluate_token_type(t) IN
        /\ Consume(t)
        /\ state = "ToreadDef"
        /\ tt.type = "Word"
        /\ tt.word \notin {COLON, SEMI}
        /\ IF tt.word \in DOMAIN vars
           THEN /\ StoredOps < MaxOps
                /\ temp_value' = temp_value \o heap[vars[tt.word]]
                /\ UNCHANGED result
           ELSE /\ result' = "UnknownWord"
                /\ UNCHANGED temp_value
        /\ UNCHANGED <<stack, vars, heap, state, temp_key>>

\* a bug ToreadDefLookup could have: a defined word is recorded in the body by
\* its name, as a named primitive
ToreadDefLookup_ByName ==
    \E t \in Tokens :
        LET tt == evaluate_token_type(t) IN
        /\ Consume(t)
        /\ state = "ToreadDef"
        /\ tt.type = "Word"
        /\ tt.word \notin {COLON, SEMI}
        /\ IF tt.word \in DOMAIN vars
           THEN /\ StoredOps < MaxOps
                /\ temp_value' = Append(temp_value, OpWord(tt.word))
                /\ UNCHANGED result
           ELSE /\ result' = "UnknownWord"
                /\ UNCHANGED temp_value
        /\ UNCHANGED <<stack, vars, heap, state, temp_key>>

\* lines 196-201: a word of the body is resolved now, to the body it has now
ToreadDefLookup ==
    \E t \in Tokens :
        LET tt == evaluate_token_type(t) IN
        /\ Consume(t)
        /\ state = "ToreadDef"
        /\ tt.type = "Word"
        /\ tt.word \notin {COLON, SEMI}
        /\ IF tt.word \in DOMAIN vars
           THEN /\ StoredOps < MaxOps
                /\ temp_value' = Append(temp_value, OpRef(vars[tt.word]))
                /\ UNCHANGED result
           ELSE /\ result' = "UnknownWord"
                /\ UNCHANGED temp_value
        /\ UNCHANGED <<stack, vars, heap, state, temp_key>>

\* a bug ToreadDefNum could have: a number of a body is also pushed on the
\* stack, as it is outside a definition
ToreadDefNum_Pushing ==
    \E t \in Tokens :
        LET tt == evaluate_token_type(t) IN
        /\ Consume(t)
        /\ state = "ToreadDef"
        /\ tt.type = "Num"
        /\ StoredOps < MaxOps
        /\ Len(stack) < MaxStack
        /\ temp_value' = Append(temp_value, OpNum(tt.num))
        /\ stack' = Append(stack, tt.num)
        /\ UNCHANGED <<vars, heap, state, temp_key, result>>

\* lines 203-205
ToreadDefNum ==
    \E t \in Tokens :
        LET tt == evaluate_token_type(t) IN
        /\ Consume(t)
        /\ state = "ToreadDef"
        /\ tt.type = "Num"
        /\ StoredOps < MaxOps
        /\ temp_value' = Append(temp_value, OpNum(tt.num))
        /\ UNCHANGED <<stack, vars, heap, state, temp_key, result>>

\* a bug EndOfInput could have: the state the loop ended in is not looked at
EndOfInput_Lenient ==
    /\ Running
    /\ result' = "Ok"
    /\ tok' = NoToken
    /\ UNCHANGED <<stack, vars, heap, state, temp_key, temp_value, pre>>

\* lines 209-213: the input is exhausted
EndOfInput ==
    /\ Running
    /\ result' = IF state = "NotReading" THEN "Ok" ELSE "InvalidWord"
    /\ tok' = NoToken
    /\ UNCHANGED <<stack, vars, heap, state, temp_key, temp_value, pre>>

Next ==
    \/ BeginEval
    \/ NotReadingColon
    \/ NotReadingSemi
    \/ NotReadingLookup
    \/ NotReadingNum
    \/ ToreadWordMarker
    \/ ToreadWordName
    \/ ToreadWordNum
    \/ ToreadDefSemi
    \/ ToreadDefColon
    \/ ToreadDefLookup
    \/ ToreadDefNum
    \/ EndOfInput

Spec == Init /\ [][Next]_allvars

----------------------------------------------------------------------------
(* Forth::push_in_stack applied once to a built-in, from any stack *)

RECURSIVE SeqsUpTo(_, _)
SeqsUpTo(S, n) ==
    IF n = 0 THEN { <<>> }
    ELSE SeqsUpTo(S, n - 1) \cup
         { Append(s, v) : s \in { q \in SeqsUpTo(S, n - 1) : Len(q) = n - 1 }, v \in S }

InitOps ==
    /\ stack \in SeqsUpTo(ArithVals, MaxDepth)
    /\ vars = NewVars
    /\ heap = NewHeap
    /\ state = "NotReading"
    /\ temp_key = <<>>
    /\ temp_value = <<>>
    /\ result = "none"
    /\ tok = NoToken
    /\ pre = <<>>

ApplyBuiltin ==
    \E i \in 1..Len(Builtins) :
      \E o \in push_in_stack(heap, stack, OpWord(Builtins[i])) :
        /\ result = "none"
        /\ tok' = Builtins[i]
        /\ pre' = stack
        /\ stack' = o.stack
        /\ result' = o.res
        /\ UNCHANGED <<vars, heap, state, temp_key, temp_value>>

NextOps == ApplyBuiltin

SpecOps == InitOps /\ [][NextOps]_allvars

----------------------------------------------------------------------------
(* Properties *)

FOO == <<"F", "O", "O">>
BAR == <<"B", "A", "R">>

Returned == result \notin {"none", "running"}

\* the step consumes the token t
Consumes(t) == Running /\ tok' = t /\ t # NoToken

\* the step is the one in which `;` commits the definition of w (line 188)
Commits(w) == Running /\ state = "ToreadDef" /\ state' = "NotReading" /\ temp_key = w

\* what executing the word w does: the primitives its body runs
Behaviour(h, v, w) == Flat(h, h[v[w]], Len(h))

\* C1: definitions are bound at definition time.  A step that does not commit
\* a definition of W leaves every defined W in the table with the behaviour it
\* had, whatever other word the step redefines; and the step that commits W
\* gives it the behaviour the words of its body have at that moment.
C1_BoundAtDefinition ==
    [][ \/ (heap' = heap /\ vars' = vars)
        \/ /\ \A w \in DOMAIN vars :
                /\ w \in DOMAIN vars'
                /\ ~Commits(w) => Behaviour(heap', vars', w) = Behaviour(heap, vars, w)
           /\ Commits(temp_key) =>
                Behaviour(heap', vars', temp_key) = Flat(heap, temp_value, Len(heap))
      ]_allvars

\* `: bar / ; : / 0 ;` then `1 1 bar`: bar was defined with the built-in `/`,
\* `/` was redefined afterwards, and bar still divides
C1_Witness ==
    /\ Running
    /\ state = "NotReading"
    /\ tok = <<"b", "a", "r">>
    /\ BAR \in DOMAIN vars
    /\ heap[vars[BAR]] = << OpRef(4) >>
    /\ vars[SLASH] > vars[BAR]
    /\ heap[vars[SLASH]] = << OpNum(0) >>
    /\ pre = <<1, 1>>
    /\ stack = <<1>>

\* the last token consumed is a mention, in the body being captured, of the
\* name being defined
OwnNameMention ==
    /\ Running
    /\ state = "ToreadDef"
    /\ temp_value # <<>>
    /\ evaluate_token_type(tok) = [type |-> "Word", word |-> temp_key]

\* C2: a name used inside its own new definition refers to the previous
\* definition of that name.  The mention is recorded as a reference to the body
\* the table holds for the name, which is an existing body since the table is
\* not touched before `;`; and no stored body refers to itself or to a later
\* body, so executing the new word never re-enters it.
C2_SelfNameIsPrevious ==
    /\ OwnNameMention =>
          /\ temp_key \in DOMAIN vars
          /\ temp_value[Len(temp_value)] = OpRef(vars[temp_key])
          /\ vars[temp_key] <= Len(heap)
    /\ \A i \in 1..Len(heap) : \A k \in 1..Len(heap[i]) :
          heap[i][k].tag = "Ref" => heap[i][k].id < i
    /\ \A k \in 1..Len(temp_value) :
          temp_value[k].tag = "Ref" => temp_value[k].id <= Len(heap)

\* `: foo 1 ; : foo foo ;` then `foo`: the second foo runs the first
C2_Witness ==
    /\ Running
    /\ state = "NotReading"
    /\ evaluate_token_type(tok) = [type |-> "Word", word |-> FOO]
    /\ FOO \in DOMAIN vars
    /\ heap[vars[FOO]] = << OpRef(vars[FOO] - 1) >>
    /\ heap[vars[FOO] - 1] = << OpNum(1) >>
    /\ pre = <<>>
    /\ stack = <<1>>

\* the number of values a built-in takes from the stack
Need(name) == IF name \in {DUP, DROP} THEN 1 ELSE 2

\* the stack a built-in is specified to leave, its operands a (below) and b (top)
Specified(st, name) ==
    LET n == Len(st)
        b == st[n]
        a == st[n - 1]
        below == SubSeq(st, 1, n - 2)
    IN  IF name = DUP THEN Append(st, b)
        ELSE IF name = DROP THEN SubSeq(st, 1, n - 1)
        ELSE IF name = PLUS THEN Append(below, WrappingAdd(a, b))
        ELSE IF name = MINUS THEN Append(below, WrappingSub(a, b))
        ELSE IF name = STAR THEN Append(below, WrappingMul(a, b))
        ELSE IF name = SLASH THEN Append(below, TruncDiv(a, b))
        ELSE IF name = SWAP THEN below \o <<b, a>>
        ELSE below \o <<a, b, a>>

\* C3: on every stack holding enough operands (and a divisor that is not 0)
\* each built-in succeeds and leaves the specified stack: a+b, a-b, a*b (in
\* 32-bit arithmetic), a/b, and the DUP, DROP, SWAP, OVER rearrangements, with
\* everything below the operands unchanged.
C3_BuiltinsTransform ==
    (/\ result # "none"
     /\ Len(pre) >= Need(tok)
     /\ ~(tok = SLASH /\ pre[Len(pre)] = 0))
    => (result = "Ok" /\ stack = Specified(pre, tok))

\* C4: a built-in executed on fewer values than it takes fails with
\* StackUnderflow, also `/` on the single value 0.
C4_Underflow ==
    (result # "none" /\ Len(pre) < Need(tok)) => result = "StackUnderflow"

\* `0 /`
C4_Witness ==
    /\ tok = SLASH
    /\ pre = <<0>>
    /\ result = "StackUnderflow"

\* C5: `/` on [.., a, 0] fails with DivisionByZero and leaves the stack without
\* a and 0, the rest unchanged.
C5_DivisionByZero ==
    (result # "none" /\ tok = SLASH /\ Len(pre) >= 2 /\ pre[Len(pre)] = 0)
    => (result = "DivisionByZero" /\ stack = SubSeq(pre, 1, Len(pre) - 2))

\* `3 8 0 /`
C5_Witness ==
    /\ tok = SLASH
    /\ pre = <<3, 8, 0>>
    /\ result = "DivisionByZero"
    /\ stack = <<3>>

\* the table is the one the step started from
TableUnchanged == vars' = vars /\ heap' = heap

\* C6: `;` reached with an empty capture buffer fails with InvalidWord and
\* leaves the word table unchanged.
C6_EmptyBodyInvalid ==
    [][ (Consumes(SEMI) /\ state = "ToreadDef" /\ temp_value = <<>>)
        => (result' = "InvalidWord" /\ TableUnchanged) ]_allvars

\* the token of the step is malformed definition syntax in the state it meets
Malformed(t) ==
    \/ state = "NotReading" /\ t = SEMI
    \/ state = "ToreadWord" /\ (t \in {COLON, SEMI} \/ evaluate_token_type(t).type = "Num")
    \/ state = "ToreadDef" /\ t = COLON

\* C7: a stray `;`, a number or a marker in the name position, and a nested
\* `:` fail with InvalidWord at that token, and the word table is unchanged.
C7_MalformedInvalid ==
    [][ (Consumes(tok') /\ Malformed(tok')) => (result' = "InvalidWord" /\ TableUnchanged)
      ]_allvars

\* `: foo 1 :`
C7_Witness ==
    /\ result = "InvalidWord"
    /\ state = "ToreadDef"
    /\ tok = COLON
    /\ temp_key = FOO
    /\ temp_value = << OpNum(1) >>
    /\ FOO \notin DOMAIN vars

\* the step is the end of the input
InputEnds == Running /\ tok' = NoToken /\ result' # "running"

\* C8: when the input ends in ToreadWord or ToreadDef the call returns
\* InvalidWord and defines nothing; and no step taken while a definition is
\* open, other than its `;`, changes the table, so the name still has the
\* definition it had before the `:`.
C8_UnterminatedInvalid ==
    [][ /\ (InputEnds /\ state \in {"ToreadWord", "ToreadDef"})
            => (result' = "InvalidWord" /\ TableUnchanged)
        /\ (Running /\ state \in {"ToreadWord", "ToreadDef"} /\ ~Commits(temp_key))
            => TableUnchanged
      ]_allvars

\* `: foo 1 ;` then `: foo 0`: foo keeps its body
C8_Witness ==
    /\ result = "InvalidWord"
    /\ tok = NoToken
    /\ state = "ToreadDef"
    /\ temp_key = FOO
    /\ temp_value = << OpNum(0) >>
    /\ FOO \in DOMAIN vars
    /\ heap[vars[FOO]] = << OpNum(1) >>

\* the token t is a word without an entry in the table
UnknownToken(t) ==
    /\ evaluate_token_type(t).type = "Word"
    /\ evaluate_token_type(t).word \notin {COLON, SEMI} \cup DOMAIN vars

\* C9: a word without an entry in the table fails with UnknownWord, executed
\* in NotReading or mentioned in a body, and leaves the table (and the stack)
\* unchanged.
C9_UnknownWord ==
    [][ (Consumes(tok') /\ state \in {"NotReading", "ToreadDef"} /\ UnknownToken(tok'))
        => (result' = "UnknownWord" /\ TableUnchanged /\ stack' = stack) ]_allvars

\* a first `: foo foo`
C9_Witness ==
    /\ result = "UnknownWord"
    /\ state = "ToreadDef"
    /\ temp_key = FOO
    /\ temp_value = <<>>
    /\ evaluate_token_type(tok) = [type |-> "Word", word |-> FOO]
    /\ FOO \notin DOMAIN vars

\* the step executes the defined word w from NotReading
Executes(w) ==
    /\ Consumes(tok')
    /\ state = "NotReading"
    /\ evaluate_token_type(tok') = [type |-> "Word", word |-> w]
    /\ w \in DOMAIN vars

\* C10: evaluation stops at the first fault and does not roll back.  The step
\* that fails leaves the table as the earlier tokens made it and the stack as
\* the primitives run before the failing one, and the failing one itself, left
\* it; once the call has returned nothing changes the stack or the table.
C10_NoRollback ==
    [][ /\ Returned => (stack' = stack /\ TableUnchanged)
        /\ (Running /\ result' \notin {"running", "Ok"}) =>
              /\ TableUnchanged
              /\ IF \E w \in DOMAIN vars : Executes(w)
                 THEN Outcome(stack', result') \in
                        RunPrims(stack, Behaviour(heap, vars, evaluate_token_type(tok').word))
                 ELSE stack' = stack
      ]_allvars

\* `: foo 0 / ;` then `1 foo`: the 0 was pushed, `/` took both values
C10_Witness ==
    /\ result = "DivisionByZero"
    /\ evaluate_token_type(tok) = [type |-> "Word", word |-> FOO]
    /\ FOO \in DOMAIN vars
    /\ heap[vars[FOO]] = << OpNum(0), OpRef(4) >>
    /\ vars[SLASH] = 4
    /\ pre = <<1>>
    /\ stack = <<>>

\* the step is the start of a call to eval
CallStarts == ~Running /\ result' = "running"

\* a call has just started: no token is consumed yet
AtCallStart == Running /\ tok = NoToken

\* C11: the interpreter is used across calls.  A call starts from the stack
\* and the table the previous call left, whether it succeeded or failed, and it
\* starts in NotReading with an empty name and an empty capture buffer, whatever
\* state the previous call ended in: an unterminated definition is discarded.
C11_CallsShareStackAndTable ==
    [][ CallStarts =>
          /\ stack' = stack
          /\ TableUnchanged
          /\ state' = "NotReading"
          /\ temp_key' = <<>>
          /\ temp_value' = <<>>
      ]_allvars

\* a call starts on a stack and a definition that earlier calls left (a first
\* call starts on the empty stack and the built-ins alone)
C11_Witness ==
    /\ AtCallStart
    /\ state = "NotReading"
    /\ temp_value = <<>>
    /\ stack = <<0>>
    /\ FOO \in DOMAIN vars
    /\ heap[vars[FOO]] = << OpNum(1) >>

\* the token t is a name: neither a number nor a marker
NameToken(t) == evaluate_token_type(t).type = "Word" /\ t \notin {COLON, SEMI}

\* the outcome of the step, as push_in_stack reports it
StepOutcome == Outcome(stack', IF result' = "running" THEN "Ok" ELSE result')

\* what a step on the name w does in each reading state: it executes the body
\* of w, takes w as the name being defined, or records a reference to the body
\* of w
StepOnName(w) ==
    IF state = "NotReading"
    THEN /\ TableUnchanged
         /\ IF w \in DOMAIN vars
            THEN StepOutcome \in ExecOps(heap, stack, heap[vars[w]])
            ELSE result' = "UnknownWord" /\ stack' = stack
    ELSE IF state = "ToreadWord"
    THEN /\ TableUnchanged
         /\ stack' = stack
         /\ result' = "running"
         /\ state' = "ToreadDef"
         /\ temp_key' = w
    ELSE /\ TableUnchanged
         /\ stack' = stack
         /\ IF w \in DOMAIN vars
            THEN result' = "running" /\ temp_value' = Append(temp_value, OpRef(vars[w]))
            ELSE result' = "UnknownWord" /\ temp_value' = temp_value

\* C12: word names are case-insensitive everywhere.  What a step does on a
\* name token, as a call, as the name of a definition or as a mention in a
\* body, is what it does on the uppercase form of the token, so every spelling
\* of a name gives the same result, stack and table; and the table holds its
\* entries under uppercase names.
C12_CaseInsensitive ==
    [][ (Consumes(tok') /\ NameToken(tok')) =>
          /\ StepOnName(to_ascii_uppercase(tok'))
          /\ \A k \in DOMAIN vars' : to_ascii_uppercase(k) = k
      ]_allvars

\* a definition typed `foo` or `Foo` and stored under FOO is called as `Foo`
C12_Witness ==
    /\ Running
    /\ state = "NotReading"
    /\ tok = <<"F", "o", "o">>
    /\ FOO \in DOMAIN vars
    /\ <<"F", "o", "o">> \notin DOMAIN vars
    /\ heap[vars[FOO]] = << OpNum(1) >>
    /\ pre = <<>>
    /\ stack = <<1>>

\* the operation a body token is stored as: a literal for a number, a
\* reference to the body the table holds for a word
StoredAs(t) ==
    LET tt == evaluate_token_type(t)
    IN  IF tt.type = "Num" THEN OpNum(tt.num) ELSE OpRef(vars[tt.word])

\* the step captures a body token: it is taken in ToreadDef and the call goes on
\* in ToreadDef
Captures == Running /\ state = "ToreadDef" /\ state' = "ToreadDef" /\ result' = "running"

\* C13: definitions are never expanded eagerly.  Each body token captured adds
\* exactly one operation to the buffer, a literal for a number and a reference
\* to the shared body for a word, however long the body of that word is; `;`
\* stores the buffer as it is, so the stored length is the number of body
\* tokens; and no step adds more than one operation to the stored total.
C13_OneOperationPerToken ==
    [][ /\ Captures => temp_value' = Append(temp_value, StoredAs(tok'))
        /\ (Commits(temp_key) /\ result' = "running") =>
              /\ heap' = Append(heap, temp_value)
              /\ vars'[temp_key] = Len(heap')
        /\ SumLen(heap', Len(Builtins) + 1) + Len(temp_value') <= StoredOps + 1
      ]_allvars

\* `: foo 1 1 ; : bar foo ;` then `bar`: the body of bar is one reference, and
\* it runs the two operations of foo
C13_Witness ==
    /\ Running
    /\ state = "NotReading"
    /\ tok = <<"b", "a", "r">>
    /\ FOO \in DOMAIN vars
    /\ BAR \in DOMAIN vars
    /\ heap[vars[FOO]] = << OpNum(1), OpNum(1) >>
    /\ heap[vars[BAR]] = << OpRef(vars[FOO]) >>
    /\ Len(Behaviour(heap, vars, BAR)) = 2
    /\ pre = <<>>
    /\ stack = <<1, 1>>

\* the step applied an arithmetic built-in to two operands, the divisor not 0
ArithmeticApplied ==
    /\ result # "none"
    /\ tok \in {PLUS, MINUS, STAR, SLASH}
    /\ Len(pre) >= 2
    /\ ~(tok = SLASH /\ pre[Len(pre)] = 0)

\* C14: the arithmetic built-ins use 32-bit wrapping arithmetic.  For all
\* operands a and b (b not 0 for `/`) the built-in returns Ok and pushes the
\* result reduced modulo 2^32 into the i32 range (i32::MIN / -1 gives
\* i32::MIN); it never aborts.
C14_WrappingArithmetic ==
    ArithmeticApplied =>
        LET a == pre[Len(pre) - 1]
            b == pre[Len(pre)]
        IN  /\ result = "Ok"
            /\ stack = Append(SubSeq(pre, 1, Len(pre) - 2),
                               IF tok = PLUS THEN WrappingAdd(a, b)
                               ELSE IF tok = MINUS THEN WrappingSub(a, b)
                               ELSE IF tok = STAR THEN WrappingMul(a, b)
                               ELSE IF a = MinI32 /\ b = -1 THEN MinI32
                               ELSE TruncDiv(a, b))

\* the remainder r that a quotient leaves is smaller than the divisor b
SmallerThanDivisor(r, b) ==
    IF b > 0 THEN r < b /\ -r < b ELSE r > b /\ -r > b

\* C15: for a divisor b that is not 0, `/` pushes the quotient of a by b
\* truncated toward zero, for every combination of signs: what is left of a is
\* smaller than b and is zero or has the sign of a.
C15_TruncatedDivision ==
    (result # "none" /\ tok = SLASH /\ Len(pre) >= 2 /\ pre[Len(pre)] # 0) =>
        /\ result = "Ok"
        /\ Len(stack) = Len(pre) - 1
        /\ LET a == pre[Len(pre) - 1]
               b == pre[Len(pre)]
               r == a - Top(stack) * b
           IN  /\ SmallerThanDivisor(r, b)
               /\ a >= 0 => r >= 0
               /\ a <= 0 => r <= 0

\* the bodies the operations ops refer to
Referenced(ops) == { ops[k].id : k \in { j \in 1..Len(ops) : ops[j].tag = "Ref" } }

\* the bodies executed by executing the bodies of S, found in at most `fuel`
\* rounds of following references
RECURSIVE Reached(_, _, _)
Reached(h, S, fuel) ==
    LET more == S \cup UNION { Referenced(h[i]) : i \in S \cap (1..Len(h)) }
    IN  IF fuel = 0 \/ more = S THEN S ELSE Reached(h, more, fuel - 1)

\* the bodies that executing the operations ops enters
Enters(h, ops) == Reached(h, Referenced(ops), Len(h))

\* C16: every call terminates, because the graph of references is acyclic in
\* every reachable state: executing a body never enters that body again, a
\* body (and the buffer being captured) only refers to bodies that exist, and
\* so the execution of a word follows references to a depth below the number
\* of bodies and runs finitely many primitives.
C16_ReferencesAcyclic ==
    /\ \A i \in 1..Len(heap) :
          /\ i \notin Enters(heap, heap[i])
          /\ Enters(heap, heap[i]) \subseteq 1..Len(heap)
    /\ Enters(heap, temp_value) \subseteq 1..Len(heap)
    /\ \A w \in DOMAIN vars :
          Flat(heap, heap[vars[w]], Len(heap) - 1) = Behaviour(heap, vars, w)

\* `: foo 1 ; : bar foo ; : foo bar ;` then `foo`: foo runs bar, bar runs the
\* first foo, and the call ends with 1 pushed
C16_Witness ==
    /\ Running
    /\ state = "NotReading"
    /\ evaluate_token_type(tok) = [type |-> "Word", word |-> FOO]
    /\ FOO \in DOMAIN vars
    /\ BAR \in DOMAIN vars
    /\ heap[vars[FOO]] = << OpRef(vars[BAR]) >>
    /\ vars[BAR] \in 2..Len(heap)
    /\ heap[vars[BAR]] = << OpRef(vars[BAR] - 1) >>
    /\ heap[vars[BAR] - 1] = << OpNum(1) >>
    /\ Enters(heap, heap[vars[FOO]]) = { vars[BAR], vars[BAR] - 1 }
    /\ pre = <<>>
    /\ stack = <<1>>

\* C17: a StackUnderflow is not free of side effects.  A built-in that takes
\* two operands, executed on a stack of exactly one value, pops that value and
\* then fails, leaving the stack empty; any built-in executed on the empty
\* stack fails and leaves it empty.
C17_UnderflowConsumes ==
    /\ (result # "none" /\ Need(tok) = 2 /\ Len(pre) = 1)
          => (result = "StackUnderflow" /\ stack = <<>>)
    /\ (result # "none" /\ pre = <<>>)
          => (result = "StackUnderflow" /\ stack = <<>>)

\* `3 +`: the 3 is gone
C17_Witness ==
    /\ tok = PLUS
    /\ pre = <<3>>
    /\ result = "StackUnderflow"
    /\ stack = <<>>

\* the token of the step belongs to a definition: it is the `:` that opens
\* one, or it is met while one is open (the name, a body token, the `;`)
InDefinition(t) ==
    \/ state \in {"ToreadWord", "ToreadDef"}
    \/ state = "NotReading" /\ t = COLON

\* C18: the tokens of a definition, from `:` through `;`, never change the
\* stack, whether the step succeeds or fails: a definition only records.
C18_DefinitionKeepsStack ==
    [][ (Consumes(tok') /\ InDefinition(tok')) => stack' = stack ]_allvars

\* `1 : foo 0 /`: the body would divide 1 by 0, the stack still holds the 1
C18_Witness ==
    /\ Running
    /\ state = "ToreadDef"
    /\ temp_key = FOO
    /\ temp_value = << OpNum(0), OpRef(vars[SLASH]) >>
    /\ tok = SLASH
    /\ pre = <<1>>
    /\ stack = <<1>>

\* the names Forth::new defines
BuiltinNames == { Builtins[i] : i \in 1..Len(Builtins) }

\* the step inserts the captured body under the pending name and leaves every
\* other entry with the body it had
InsertsPending ==
    /\ DOMAIN vars' = DOMAIN vars \cup {temp_key}
    /\ heap'[vars'[temp_key]] = temp_value
    /\ to_ascii_uppercase(temp_key) = temp_key
    /\ \A w \in DOMAIN vars \ {temp_key} :
          vars'[w] = vars[w] /\ heap'[vars'[w]] = heap[vars[w]]

\* C19: the table changes only in the step in which `;` closes a definition
\* with a body, and then exactly the pending name is inserted or replaced;
\* steps taken in NotReading and steps that fail leave the table as it was;
\* and no entry is ever removed, so the eight built-in names stay defined.
C19_TableFrame ==
    [][ /\ ~TableUnchanged =>
              /\ Consumes(SEMI)
              /\ state = "ToreadDef"
              /\ temp_value # <<>>
              /\ result' = "running"
              /\ InsertsPending
        /\ (state = "NotReading" \/ result' \notin {"running", "Ok"}) => TableUnchanged
        /\ DOMAIN vars \subseteq DOMAIN vars'
        /\ BuiltinNames \subseteq DOMAIN vars'
      ]_allvars

\* `: foo 1 ; : bar 1 ; : foo 0 ;`: foo is replaced, bar and `/` are as before
C19_Witness ==
    /\ Running
    /\ state = "NotReading"
    /\ tok = SEMI
    /\ FOO \in DOMAIN vars
    /\ BAR \in DOMAIN vars
    /\ vars[FOO] = Len(heap)
    /\ vars[BAR] = Len(heap) - 1
    /\ heap[vars[FOO]] = << OpNum(0) >>
    /\ heap[vars[BAR]] = << OpNum(1) >>
    /\ heap[vars[BAR] - 1] = << OpNum(1) >>
    /\ vars[SLASH] = 4

\* the operations ops are literals and references only
OnlyNumAndRef(ops) == \A k \in 1..Len(ops) : ops[k].tag \in {"Num", "Ref"}

\* C20: every named primitive (Op::Word) that a body of the table reaches
\* names one of the eight built-ins; the bodies of user definitions, and the
\* body being captured, hold only literals and references; consequently
\* executing a defined word on the current stack never returns InvalidWord or
\* UnknownWord: of the four errors only StackUnderflow and DivisionByZero come
\* out of an execution.
C20_OnlyBuiltinPrimitives ==
    /\ \A w \in DOMAIN vars :
          LET prims == Behaviour(heap, vars, w)
          IN  \A k \in 1..Len(prims) :
                  prims[k].tag = "Word" => prims[k].name \in BuiltinNames
    /\ \A i \in (Len(Builtins) + 1)..Len(heap) : OnlyNumAndRef(heap[i])
    /\ OnlyNumAndRef(temp_value)
    /\ \A w \in DOMAIN vars :
          \A o \in ExecOps(heap, stack, heap[vars[w]]) :
              o.res \notin {"InvalidWord", "UnknownWord"}

\* `: foo / ;` then `foo` on the empty stack: the body of foo reaches the
\* built-in `/` through its reference, and the execution fails with
\* StackUnderflow
C20_Witness ==
    /\ result = "StackUnderflow"
    /\ evaluate_token_type(tok) = [type |-> "Word", word |-> FOO]
    /\ FOO \in DOMAIN vars
    /\ heap[vars[FOO]] = << OpRef(4) >>
    /\ Behaviour(heap, vars, FOO) = << OpWord(SLASH) >>
    /\ pre = <<>>
    /\ stack = <<>>

====
